---- MODULE Spec2Model ----
(***************************************************************************)
(* The cozorocks bridge (cozorocks/bridge/db.h): RocksDbBridge, its bulk   *)
(* writer SstFileWriterBridge, SnapshotBridge and the transactions it      *)
(* hands out, over an abstract storage engine.                             *)
(*                                                                         *)
(* Keys are the integers 0..MaxKey (byte strings in bytewise order), a     *)
(* value is 1 or 2, and NoVal is the result of reading an absent key.      *)
(***************************************************************************)
EXTENDS Integers, Sequences, FiniteSets, TLC

\* ------------------------------------------------------------- bounds
MaxKey == 2
MaxSnaps == 2
MaxLen == 2

Keys == 0..MaxKey
Vals == {1, 2}
NoVal == 0
\* The column families the database is opened with: primary and secondary.
CFIds == {0, 1}
\* size_t indices a caller may pass: the populated ones and one past the table
Idxs == CFIds \cup {Cardinality(CFIds)}
Paths == {"a.sst"}
\* The two Transaction Handles the host opens, and the value each one writes.
TxIds == {"A", "B"}
TxVal == [t \in TxIds |-> IF t = "A" THEN 1 ELSE 2]

VARIABLES
    bridge,   \* RocksDbBridge: its fields, and whether the handle is alive
    store,    \* the engine's committed contents: column family -> key -> value
    files,    \* the file system: path -> external file
    writer,   \* the Bulk Writer the host holds (SstFileWriterBridge)
    snaps,    \* Snapshot Handles created so far
    txs,      \* Transaction Handles created so far
    call,     \* the call in progress: operation, arguments, engine calls made
    status,   \* the caller's RocksDbStatus output parameter of that call
    pre,      \* store, files and writer as they were when the call was made
    crashed   \* the process was killed by a native fault

vars == <<bridge, store, files, writer, snaps, txs, call, status, pre, crashed>>

\* ------------------------------------------------------------- status
\* A fresh status output parameter, as the caller passes it in.
FreshStatus == [code |-> "Unset", writes |-> 0]

\* write_status(engine status, caller's output): stores the code.
write_status(s, out) == [code |-> s, writes |-> out.writes + 1]

IsOk(st) == st.code = "Ok"

\* ------------------------------------------------------------- slices
\* convert_slice: the engine's view of the host's bytes, same content.
convert_slice(bytes) == bytes

\* ------------------------------------------------------------- comparator
\* The host callback installed when use_cmp is set: here the reverse order.
ext_cmp(a, b) == IF a > b THEN -1 ELSE IF a < b THEN 1 ELSE 0

\* The engine's default bytewise comparator.
BytewiseCompare(a, b) == IF a < b THEN -1 ELSE IF a > b THEN 1 ELSE 0

\* (variant) the callback is not consulted
CompareBytewise(a, b) == BytewiseCompare(a, b)

\* RustComparator::Compare delegates to the callback.
Compare(a, b) == IF bridge.use_cmp THEN ext_cmp(a, b) ELSE BytewiseCompare(a, b)

\* k lies in [s, e) in comparator order.
InRange(k, s, e) == Compare(s, k) <= 0 /\ Compare(k, e) < 0

\* Key strings the engine hands to the comparator when it builds an index:
\* byte strings of up to MaxLen bytes.
Bytes == {0, 1, 2}
KeyStrings == UNION {[1..n -> Bytes] : n \in 0..MaxLen}

\* (variant) the successor the bytewise comparator computes: the string is cut
\* after its first byte that can be incremented, and that byte is incremented
FindShortSuccessorBytewise(key) ==
    IF \E i \in 1..Len(key) : key[i] + 1 \in Bytes
    THEN LET p == CHOOSE i \in 1..Len(key) :
                      /\ key[i] + 1 \in Bytes
                      /\ \A j \in 1..(i - 1) : key[j] + 1 \notin Bytes
         IN  [i \in 1..p |-> IF i = p THEN key[i] + 1 ELSE key[i]]
    ELSE key

\* RustComparator::FindShortSuccessor(string *key), line 138: the body is
\* empty; the value is the string as the call leaves it.
FindShortSuccessor(key) == key

\* RustComparator::FindShortestSeparator(string *start, const Slice &limit),
\* line 136: the body is empty; the value is *start as the call leaves it.
FindShortestSeparator(start, limit) == start

\* ------------------------------------------------------------- engine: reads and writes
EmptyCF == [k \in Keys |-> NoVal]
FullCF == [k \in Keys |-> 1]

\* DB::Get of key k in column family cf.
Get(st, cf, k) == st[cf][k]

\* Iterating a column family: its pairs in comparator order.
Present(st, cf) == {k \in Keys : st[cf][k] # NoVal}

RECURSIVE ScanFrom(_, _, _)
ScanFrom(st, cf, ks) ==
    IF ks = {} THEN <<>>
    ELSE LET m == CHOOSE k \in ks : \A j \in ks : Compare(k, j) <= 0
         IN  <<(<<m, st[cf][m]>>)>> \o ScanFrom(st, cf, ks \ {m})

Scan(st, cf) == ScanFrom(st, cf, Present(st, cf))

\* The engine applies a batch holding one DeleteRange(cf, s, e).
ApplyDeleteRange(st, cf, s, e) ==
    [st EXCEPT ![cf] = [k \in Keys |-> IF InRange(k, s, e) THEN NoVal ELSE @[k]]]

\* Statuses WriteBatch::DeleteRange can return.
BatchStatuses == {"Ok", "NotSupported"}

\* Statuses TransactionDB::Write can return for a batch DeleteRange(cf, s, e):
\* a range whose end orders before its start is refused, and I/O can fail.
WriteStatuses(s, e) ==
    IF Compare(s, e) > 0 THEN {"InvalidArgument"} ELSE {"Ok", "IOError"}

\* Statuses DB::CompactRange can return.
CompactStatuses == {"Ok", "IOError"}

\* ------------------------------------------------------------- column-family lookup
\* cf_handles[idx], vector::operator[] with no bounds check.  Past the end the
\* read is undefined: the garbage pointer faults when used, or happens to be
\* one of the live handles.
CfAt(idx) ==
    IF idx < Len(bridge.cf_handles)
    THEN {[fault |-> FALSE, cf |-> bridge.cf_handles[idx + 1]]}
    ELSE {[fault |-> TRUE, cf |-> 0]}
         \cup {[fault |-> FALSE, cf |-> c] : c \in CFIds}

\* ------------------------------------------------------------- calls
\* IngestExternalFileOptions as default-constructed: files are copied.
DefaultIngestOptions == [move_files |-> FALSE]

NewCall(op, idx, a, b, ecalls, efail) ==
    [op |-> op, idx |-> idx, a |-> a, b |-> b, cf |-> 0, path |-> "",
     ecalls |-> ecalls, efail |-> efail, ifo |-> DefaultIngestOptions]

Idle == NewCall("idle", 0, 0, 0, <<>>, FALSE)

Snapshot == [store |-> store, files |-> files, writer |-> writer]

\* The host can make a call: it holds the handle, the process runs, and the
\* calling thread is not inside another call.
Usable == bridge.alive /\ ~crashed /\ call.op = "idle"

\* A call is entered: the caller passes a fresh status.
Enter == pre' = Snapshot

\* A native fault inside operation op: nothing is returned to the caller.
Fault(op, idx, a, b) ==
    /\ crashed' = TRUE
    /\ call' = NewCall(op, idx, a, b, <<>>, FALSE)
    /\ status' = FreshStatus
    /\ UNCHANGED <<bridge, store, files, writer, snaps, txs>>

\* The call returns to the host, which has read the status.
host_return ==
    /\ ~crashed
    /\ call.op # "idle"
    /\ call' = Idle
    /\ status' = FreshStatus
    /\ pre' = Snapshot
    /\ UNCHANGED <<bridge, store, files, writer, snaps, txs, crashed>>

\* ------------------------------------------------------------- range operations
\* (variant) the batch always names the first column family
DelRangeBatchFirstCf(cf, start, end) ==
    [cf |-> 0, s |-> convert_slice(start), e |-> convert_slice(end)]

\* (variant) the start key is converted for both ends of the range
DelRangeBatchStartTwice(cf, start, end) ==
    [cf |-> cf, s |-> convert_slice(start), e |-> convert_slice(start)]

\* del_range, line 84: the batch holds one DeleteRange(cf, start, end).
DelRangeBatch(cf, start, end) ==
    [cf |-> cf, s |-> convert_slice(start), e |-> convert_slice(end)]

\* (variant) the early return is missing
DelRangeFallsThrough(s) == FALSE

\* (variant) the test of the batch status is inverted
DelRangeReturnsOnOk(s) == s = "Ok"

\* del_range, lines 85-88: a failed DeleteRange is reported and ends the call.
DelRangeReturnsEarly(s) == s # "Ok"

\* (variant) the write options are left at their defaults
DelRangeDefaultOptions ==
    [skip_concurrency_control |-> FALSE, skip_duplicate_key_check |-> FALSE]

\* del_range, lines 89-92: the write skips concurrency control and the
\* duplicate-key check.
DelRangeOptimizations ==
    [skip_concurrency_control |-> TRUE, skip_duplicate_key_check |-> TRUE]

\* The Transaction Handles after a DeleteRange(cf, s, e) was written: an open
\* transaction that has buffered a key of the range is marked (history only).
AfterRange(cf, s, e) ==
    [t \in DOMAIN txs |->
        IF /\ txs[t].state = "open"
           /\ \E i \in CFIds, k \in Keys :
                 /\ txs[t].cf_handles[i + 1] = cf
                 /\ txs[t].writes[i][k] # NoVal
                 /\ InRange(k, s, e)
        THEN [txs[t] EXCEPT !.ranged = TRUE]
        ELSE txs[t]]

\* An open transaction holds the lock of a key of [s, e) in family cf.
RangeLocked(cf, s, e) ==
    \E t \in DOMAIN txs :
        /\ txs[t].state = "open"
        /\ \E i \in CFIds, k \in Keys :
              /\ txs[t].cf_handles[i + 1] = cf
              /\ txs[t].writes[i][k] # NoVal
              /\ InRange(k, s, e)

\* Statuses TransactionDB::Write(options, optimizations, batch) can return:
\* unless concurrency control is skipped the write takes the locks of the
\* batch's keys, and times out when an open transaction holds one.
TxnWriteStatuses(opts, cf, s, e) ==
    IF ~opts.skip_concurrency_control /\ RangeLocked(cf, s, e)
    THEN {"TimedOut"}
    ELSE WriteStatuses(s, e)

\* RocksDbBridge::del_range
del_range ==
    /\ Usable
    /\ Enter
    /\ \E start \in Keys, end \in Keys, idx \in Idxs :
       \E h \in CfAt(idx) :
          \/ /\ h.fault
             /\ Fault("del_range", idx, start, end)
          \/ /\ ~h.fault
             /\ \E s \in BatchStatuses :
                LET batch == DelRangeBatch(h.cf, start, end)
                    st1 == IF s # "Ok" THEN write_status(s, FreshStatus) ELSE FreshStatus
                IN  IF DelRangeReturnsEarly(s)
                    THEN /\ status' = st1
                         /\ call' = [NewCall("del_range", idx, start, end,
                                             <<"DeleteRange">>, TRUE)
                                     EXCEPT !.cf = h.cf]
                         /\ store' = store
                         /\ txs' = txs
                    ELSE \E s2 \in TxnWriteStatuses(DelRangeOptimizations,
                                                    batch.cf, batch.s, batch.e) :
                         /\ status' = write_status(s2, st1)
                         /\ call' = [NewCall("del_range", idx, start, end,
                                             <<"DeleteRange", "Write">>,
                                             s # "Ok" \/ s2 # "Ok")
                                     EXCEPT !.cf = h.cf]
                         /\ store' = IF s2 = "Ok"
                                     THEN ApplyDeleteRange(store, batch.cf, batch.s, batch.e)
                                     ELSE store
                         /\ txs' = IF s2 = "Ok"
                                   THEN AfterRange(batch.cf, batch.s, batch.e)
                                   ELSE txs
             /\ UNCHANGED <<bridge, files, writer, snaps, crashed>>

\* What an engine call on a key range does to the contents: a compaction
\* rewrites files, wholly or in part, and no read changes.
EngineRangeCall(st, c) ==
    IF c.fn = "DeleteRange" THEN ApplyDeleteRange(st, c.cf, c.s, c.e) ELSE st

\* (variant) the range is deleted instead of compacted
CompactRangeCallDeletes(cf, start, end) ==
    [fn |-> "DeleteRange", cf |-> cf, s |-> convert_slice(start), e |-> convert_slice(end)]

\* compact_range, lines 99-102: db->CompactRange(options, cf, &start_s, &end_s).
CompactRangeCall(cf, start, end) ==
    [fn |-> "CompactRange", cf |-> cf, s |-> convert_slice(start), e |-> convert_slice(end)]

\* RocksDbBridge::compact_range
compact_range ==
    /\ Usable
    /\ Enter
    /\ \E start \in Keys, end \in Keys, idx \in Idxs :
       \E h \in CfAt(idx) :
          \/ /\ h.fault
             /\ Fault("compact_range", idx, start, end)
          \/ /\ ~h.fault
             /\ \E s \in CompactStatuses :
                /\ status' = write_status(s, FreshStatus)
                /\ call' = [NewCall("compact_range", idx, start, end,
                                    <<"CompactRange">>, s # "Ok")
                            EXCEPT !.cf = h.cf]
             /\ store' = EngineRangeCall(store, CompactRangeCall(h.cf, start, end))
             /\ UNCHANGED <<bridge, files, writer, snaps, txs, crashed>>

\* ------------------------------------------------------------- files and writers
NoFile == [exists |-> FALSE, sealed |-> FALSE, pairs |-> <<>>]

NoWriter ==
    [held |-> FALSE, builder |-> FALSE, path |-> "", entries |-> <<>>,
     state |-> "None", accepted |-> <<>>]

\* ------------------------------------------------------------- engine: external files
\* The last key added to the file being built (file_info.largest_key).
LargestKey(w) == w.entries[Len(w.entries)][1]

\* SstFileWriter::Open: creates or truncates the file; I/O can fail.
OpenStatuses == {"Ok", "IOError"}

\* SstFileWriter::Put: refused when no file is open, and when the key does
\* not order strictly after the last one added.
SstPutStatus(w, k) ==
    IF ~w.builder THEN "InvalidArgument"
    ELSE IF w.entries # <<>> /\ Compare(k, LargestKey(w)) <= 0 THEN "InvalidArgument"
    ELSE "Ok"

\* SstFileWriter::Finish: refused when no file is open and when nothing was
\* added (the builder is then kept); otherwise the builder is released,
\* whether the file was sealed or an I/O error deleted it.
SstFinishStatuses(w) ==
    IF ~w.builder THEN {"InvalidArgument"}
    ELSE IF w.entries = <<>> THEN {"InvalidArgument"}
    ELSE {"Ok", "IOError"}

SstFinishKeepsBuilder(w) == w.builder /\ w.entries = <<>>

\* DB::IngestExternalFile of one file: it must exist and be a sealed table.
IngestStatuses(f) ==
    IF ~f.exists THEN {"IOError"}
    ELSE IF ~f.sealed THEN {"Corruption"}
    ELSE {"Ok", "IOError"}

\* The keys of a file's pairs, and the value a file holds for a key.
FileKeys(f) == {f.pairs[i][1] : i \in 1..Len(f.pairs)}
FileVal(f, k) == (CHOOSE i \in 1..Len(f.pairs) : f.pairs[i][1] = k)
FileValue(f, k) == f.pairs[FileVal(f, k)][2]

\* The column family after the file's pairs were added on top of it.
Ingested(st, cf, f) ==
    [st EXCEPT ![cf] = [k \in Keys |-> IF k \in FileKeys(f) THEN FileValue(f, k) ELSE @[k]]]

\* What is left at the path: the file is copied unless move_files asks to move it.
AfterIngest(f, ifo) == IF ifo.move_files THEN NoFile ELSE f

\* ------------------------------------------------------------- bulk writer
\* The spec's writer states, followed from the statuses the host is given.
AfterFinish(state, s) ==
    IF state = "Opened" THEN (IF s = "Ok" THEN "Finished" ELSE "Failed") ELSE state

\* RocksDbBridge::get_sst_writer
get_sst_writer ==
    /\ Usable
    /\ ~writer.held
    /\ Enter
    /\ \E path \in Paths, idx \in Idxs :
       \E h \in CfAt(idx) :
          \/ /\ h.fault
             /\ Fault("get_sst_writer", idx, 0, 0)
          \/ /\ ~h.fault
             /\ \E s \in OpenStatuses :
                /\ status' = write_status(s, FreshStatus)
                /\ call' = [NewCall("get_sst_writer", idx, 0, 0,
                                    <<"GetOptions", "Open">>, s # "Ok")
                            EXCEPT !.cf = h.cf, !.path = path]
                /\ writer' = [held |-> TRUE, builder |-> (s = "Ok"), path |-> path,
                              entries |-> <<>>,
                              state |-> IF s = "Ok" THEN "Opened" ELSE "Failed",
                              accepted |-> <<>>]
                /\ files' = IF s = "Ok"
                            THEN [files EXCEPT ![path] =
                                     [exists |-> TRUE, sealed |-> FALSE, pairs |-> <<>>]]
                            ELSE files
             /\ UNCHANGED <<bridge, store, snaps, txs, crashed>>

\* (variant) the key is passed for the value too
PutPairKeyTwice(key, val) == <<convert_slice(key), convert_slice(key)>>

\* put, line 38: the pair handed to the engine.
PutPair(key, val) == <<convert_slice(key), convert_slice(val)>>

\* SstFileWriterBridge::put
put ==
    /\ Usable
    /\ writer.held
    /\ Enter
    /\ \E key \in Keys, val \in Vals :
       LET pair == PutPair(key, val)
           s == SstPutStatus(writer, pair[1])
       IN  /\ status' = write_status(s, FreshStatus)
           /\ call' = NewCall("put", 0, key, val, <<"Put">>, s # "Ok")
           /\ writer' = IF s = "Ok"
                        THEN [writer EXCEPT !.entries = Append(@, pair),
                                            !.accepted = Append(@, <<key, val>>)]
                        ELSE writer
           /\ files' = IF s = "Ok"
                       THEN [files EXCEPT ![writer.path].pairs = Append(@, pair)]
                       ELSE files
    /\ UNCHANGED <<bridge, store, snaps, txs, crashed>>

\* (variant) Ok is reported whatever inner.Finish() returned
FinishStatusSwallowed(s) == "Ok"

\* finish, line 34: the status of inner.Finish() is the one reported.
FinishStatus(s) == s

\* SstFileWriterBridge::finish
finish ==
    /\ Usable
    /\ writer.held
    /\ Enter
    /\ \E s \in SstFinishStatuses(writer) :
       /\ status' = write_status(FinishStatus(s), FreshStatus)
       /\ call' = NewCall("finish", 0, 0, 0, <<"Finish">>, s # "Ok")
       /\ writer' = [writer EXCEPT
                        !.builder = SstFinishKeepsBuilder(writer),
                        !.state = AfterFinish(@, FinishStatus(s))]
       /\ files' = IF ~writer.builder \/ writer.entries = <<>> THEN files
                   ELSE IF s = "Ok" THEN [files EXCEPT ![writer.path].sealed = TRUE]
                   ELSE [files EXCEPT ![writer.path] = NoFile]
    /\ UNCHANGED <<bridge, store, snaps, txs, crashed>>

\* (variant) the options ask the engine to move the file
IngestOptionsMove == [move_files |-> TRUE]

\* ingest_sst, line 64: the options are default-constructed and not changed.
IngestOptions == DefaultIngestOptions

\* RocksDbBridge::ingest_sst
ingest_sst ==
    /\ Usable
    /\ Enter
    /\ \E path \in Paths, idx \in Idxs :
       \E h \in CfAt(idx) :
          \/ /\ h.fault
             /\ Fault("ingest_sst", idx, 0, 0)
          \/ /\ ~h.fault
             /\ LET ifo == IngestOptions IN
                \E s \in IngestStatuses(files[path]) :
                /\ status' = write_status(s, FreshStatus)
                /\ call' = [NewCall("ingest_sst", idx, 0, 0,
                                    <<"IngestExternalFile">>, s # "Ok")
                            EXCEPT !.cf = h.cf, !.path = path, !.ifo = ifo]
                /\ store' = IF s = "Ok" THEN Ingested(store, h.cf, files[path]) ELSE store
                /\ files' = IF s = "Ok"
                            THEN [files EXCEPT ![path] = AfterIngest(@, ifo)]
                            ELSE files
             /\ UNCHANGED <<bridge, writer, snaps, txs, crashed>>

\* ------------------------------------------------------------- getters
\* (variant) the path is moved out of the handle
get_db_path_moved ==
    /\ Usable
    /\ Enter
    /\ call' = [NewCall("get_db_path", 0, 0, 0, <<>>, FALSE) EXCEPT !.path = bridge.db_path]
    /\ bridge' = [bridge EXCEPT !.db_path = ""]
    /\ status' = FreshStatus
    /\ UNCHANGED <<store, files, writer, snaps, txs, crashed>>

\* RocksDbBridge::get_db_path: a reference to the stored path.
get_db_path ==
    /\ Usable
    /\ Enter
    /\ call' = [NewCall("get_db_path", 0, 0, 0, <<>>, FALSE) EXCEPT !.path = bridge.db_path]
    /\ status' = FreshStatus
    /\ UNCHANGED <<bridge, store, files, writer, snaps, txs, crashed>>

\* RocksDbBridge::get_base_db: the engine's base database.
get_base_db ==
    /\ Usable
    /\ Enter
    /\ call' = NewCall("get_base_db", 0, 0, 0, <<"GetBaseDB">>, FALSE)
    /\ status' = FreshStatus
    /\ UNCHANGED <<bridge, store, files, writer, snaps, txs, crashed>>

\* ------------------------------------------------------------- index keys
\* The engine, building an index block, asks the installed comparator for a
\* short key between two keys, or after the last key.
find_shortest_separator ==
    /\ Usable
    /\ bridge.use_cmp
    /\ Enter
    /\ \E start \in KeyStrings, limit \in KeyStrings :
         call' = [NewCall("FindShortestSeparator", 0, start, limit, <<>>, FALSE)
                  EXCEPT !.path = FindShortestSeparator(start, limit)]
    /\ status' = FreshStatus
    /\ UNCHANGED <<bridge, store, files, writer, snaps, txs, crashed>>

find_short_successor ==
    /\ Usable
    /\ bridge.use_cmp
    /\ Enter
    /\ \E key \in KeyStrings :
         call' = [NewCall("FindShortSuccessor", 0, key, <<>>, <<>>, FALSE)
                  EXCEPT !.path = FindShortSuccessor(key)]
    /\ status' = FreshStatus
    /\ UNCHANGED <<bridge, store, files, writer, snaps, txs, crashed>>

\* ------------------------------------------------------------- snapshots
\* DB::ReleaseSnapshot on the database the snapshot was taken from.
ReleaseSnapshot(sn) == [sn EXCEPT !.released = @ + 1]

\* (variant) the destructor does not release the snapshot
SnapshotDestructorLeaks(sn) == [sn EXCEPT !.held = FALSE]

\* SnapshotBridge::~SnapshotBridge, lines 21-24: db->ReleaseSnapshot(snapshot).
SnapshotDestructor(sn) == ReleaseSnapshot([sn EXCEPT !.held = FALSE])

\* A Snapshot Handle is created: DB::GetSnapshot, then the SnapshotBridge
\* constructor (line 19) stores the snapshot and the raw database pointer.
make_snapshot ==
    /\ Usable
    /\ Len(snaps) < MaxSnaps
    /\ Enter
    /\ snaps' = Append(snaps, [held |-> TRUE, released |-> 0, used_dead |-> FALSE])
    /\ call' = NewCall("make_snapshot", 0, Len(snaps) + 1, 0, <<"GetSnapshot">>, FALSE)
    /\ status' = FreshStatus
    /\ UNCHANGED <<bridge, store, files, writer, txs, crashed>>

\* A Snapshot Handle is destroyed.  The destructor dereferences db with no
\* check: once the database is gone the call runs on freed memory, and the
\* process faults or carries on.
drop_snapshot ==
    /\ ~crashed
    /\ call.op = "idle"
    /\ Enter
    /\ \E i \in 1..Len(snaps) :
       /\ snaps[i].held
       /\ call' = NewCall("drop_snapshot", 0, i, 0, <<"ReleaseSnapshot">>, FALSE)
       /\ \/ /\ bridge.alive
             /\ snaps' = [snaps EXCEPT ![i] = SnapshotDestructor(@)]
             /\ crashed' = FALSE
          \/ /\ ~bridge.alive
             /\ snaps' = [snaps EXCEPT ![i] = [@ EXCEPT !.held = FALSE, !.used_dead = TRUE]]
             /\ crashed' \in BOOLEAN
    /\ status' = FreshStatus
    /\ UNCHANGED <<bridge, store, files, writer, txs>>

\* (variant) the database member is declared before the comparators
MembersDbFirst ==
    <<"db", "pri_comparator", "snd_comparator", "cf_handles",
      "destroy_on_exit", "db_path">>

\* The data members of RocksDbBridge in declaration order, lines 44-50.
Members ==
    <<"pri_comparator", "snd_comparator", "db", "cf_handles",
      "destroy_on_exit", "db_path">>

\* The body of ~RocksDbBridge: every column-family handle is released.
DestructorBody == <<"release cf_handles">>

\* Members are destroyed after the destructor's body, last declared first.
MemberDestruction == [i \in 1..Len(Members) |-> Members[Len(Members) + 1 - i]]

\* What the destruction of a Database Handle does, in order.
DestructionOrder == DestructorBody \o MemberDestruction

\* RocksDbBridge::~RocksDbBridge: the host drops its last reference, the
\* column-family handles are released and the database is closed.
close_db ==
    /\ Usable
    /\ Enter
    /\ bridge' = [bridge EXCEPT !.alive = FALSE]
    /\ call' = NewCall("close_db", 0, 0, 0, DestructionOrder, FALSE)
    /\ status' = FreshStatus
    /\ UNCHANGED <<store, files, writer, snaps, txs, crashed>>

\* ------------------------------------------------------------- transactions
NoWrites == [cf \in CFIds |-> EmptyCF]

\* A Transaction Handle: the handle table it was given, and what it wrote
\* under each cf index.
NoTx == [state |-> "none", cf_handles |-> <<>>, writes |-> NoWrites,
         concurrent |-> FALSE, used_dead |-> FALSE, ranged |-> FALSE]

\* (variant) every index of the handle's table names the first column family
TxHandlesAllFirst == [i \in 1..Len(bridge.cf_handles) |-> bridge.cf_handles[1]]

\* transact, line 77: the handle table given to the TxBridge.
TxHandles == bridge.cf_handles

\* RocksDbBridge::transact
transact ==
    /\ Usable
    /\ Enter
    /\ \E t \in TxIds :
       /\ txs[t].state = "none"
       /\ txs' = [txs EXCEPT ![t] =
                     [NoTx EXCEPT !.state = "open", !.cf_handles = TxHandles,
                                  !.concurrent = \E u \in TxIds : txs[u].state = "open"]]
       /\ call' = [NewCall("transact", 0, 0, 0, <<>>, FALSE) EXCEPT !.path = t]
    /\ status' = FreshStatus
    /\ UNCHANGED <<bridge, store, files, writer, snaps, crashed>>

\* What transaction tx wrote to key k of column family cf (NoVal: nothing).
TxWrite(tx, cf, k) ==
    IF \E i \in CFIds : tx.cf_handles[i + 1] = cf /\ tx.writes[i][k] # NoVal
    THEN tx.writes[CHOOSE i \in CFIds : tx.cf_handles[i + 1] = cf /\ tx.writes[i][k] # NoVal][k]
    ELSE NoVal

\* Another open transaction holds the lock of key k in family cf.
LockedByOther(t, cf, k) ==
    \E u \in TxIds \ {t} : txs[u].state = "open" /\ TxWrite(txs[u], cf, k) # NoVal

\* The store after the transaction's write buffer was applied.
Committed(st, tx) ==
    [cf \in CFIds |-> [k \in Keys |->
        IF TxWrite(tx, cf, k) # NoVal THEN TxWrite(tx, cf, k) ELSE st[cf][k]]]

\* TxBridge put: the key is locked and buffered, or the lock request times
\* out because another open transaction holds it.
tx_put ==
    /\ Usable
    /\ Enter
    /\ \E t \in TxIds, idx \in CFIds, key \in Keys :
       /\ txs[t].state = "open"
       /\ LET cf == txs[t].cf_handles[idx + 1]
              s == IF LockedByOther(t, cf, key) THEN "TimedOut" ELSE "Ok"
          IN  /\ status' = write_status(s, FreshStatus)
              /\ call' = [NewCall("tx_put", idx, key, TxVal[t], <<"Put">>, s # "Ok")
                          EXCEPT !.path = t, !.cf = cf]
              /\ txs' = IF s = "Ok"
                        THEN [txs EXCEPT ![t].writes[idx][key] = TxVal[t]]
                        ELSE txs
    /\ UNCHANGED <<bridge, store, files, writer, snaps, crashed>>

\* TxBridge commit: all of the buffer becomes visible and the locks are
\* dropped.  The handle holds a raw database pointer and checks nothing:
\* once the database is gone the call runs on freed memory.
tx_commit ==
    /\ ~crashed
    /\ call.op = "idle"
    /\ Enter
    /\ \E t \in TxIds :
       /\ txs[t].state = "open"
       /\ \/ /\ bridge.alive
             /\ txs' = [txs EXCEPT ![t].state = "committed"]
             /\ store' = Committed(store, txs[t])
             /\ status' = write_status("Ok", FreshStatus)
             /\ call' = [NewCall("tx_commit", 0, 0, 0, <<"Commit">>, FALSE)
                         EXCEPT !.path = t]
             /\ crashed' = FALSE
          \/ /\ ~bridge.alive
             /\ txs' = [txs EXCEPT ![t].state = "committed", ![t].used_dead = TRUE]
             /\ store' = store
             /\ \E c \in BOOLEAN :
                /\ crashed' = c
                /\ status' = IF c THEN FreshStatus ELSE write_status("Ok", FreshStatus)
             /\ call' = [NewCall("tx_commit", 0, 0, 0, <<"Commit">>, FALSE)
                         EXCEPT !.path = t]
    /\ UNCHANGED <<bridge, files, writer, snaps>>

\* ------------------------------------------------------------- open
\* The host holds no Database Handle.
NoBridge == [alive |-> FALSE, use_cmp |-> FALSE, cf_handles |-> <<>>, db_path |-> ""]

\* What can make TransactionDB::Open fail, and the status the engine gives.
OpenFailures == {"path unavailable", "lock held", "comparator mismatch"}

OpenStatus(cause) ==
    IF cause = "none" THEN "Ok"
    ELSE IF cause = "comparator mismatch" THEN "InvalidArgument"
    ELSE "IOError"

\* The handle open_db builds: both column families, the path, the comparators.
OpenedBridge(c) ==
    [alive |-> TRUE, use_cmp |-> c, cf_handles |-> <<0, 1>>, db_path |-> "db"]

\* (variant) the handle under construction is returned whatever the status
OpenReturnsPartial(s, c) ==
    IF s = "Ok" THEN OpenedBridge(c)
    ELSE [NoBridge EXCEPT !.alive = TRUE, !.use_cmp = c, !.db_path = "db"]

\* What open_db returns to the caller for engine status s.
OpenReturns(s, c) == IF s = "Ok" THEN OpenedBridge(c) ELSE NoBridge

\* open_db(opts, status, use_cmp, pri_cmp_impl, snd_cmp_impl)
open_db ==
    /\ bridge = NoBridge
    /\ ~crashed
    /\ call.op = "idle"
    /\ Enter
    /\ \E c \in BOOLEAN, cause \in OpenFailures \cup {"none"} :
       /\ status' = write_status(OpenStatus(cause), FreshStatus)
       /\ bridge' = OpenReturns(OpenStatus(cause), c)
       /\ call' = [NewCall("open_db", 0, 0, 0, <<"Open">>, cause # "none")
                   EXCEPT !.path = cause]
    /\ UNCHANGED <<store, files, writer, snaps, txs, crashed>>

\* ------------------------------------------------------------- initial state
\* open_db succeeded, on a new database or on existing data.
Init ==
    /\ \E c \in BOOLEAN :
         bridge = [alive |-> TRUE, use_cmp |-> c,
                   cf_handles |-> <<0, 1>>,
                   db_path |-> "db"]
    /\ store \in [CFIds -> {EmptyCF, FullCF}]
    /\ files = [p \in Paths |-> NoFile]
    /\ writer = NoWriter
    /\ snaps = <<>>
    /\ txs = [t \in TxIds |-> NoTx]
    /\ call = Idle
    /\ status = FreshStatus
    /\ pre = [store |-> store, files |-> files, writer |-> writer]
    /\ crashed = FALSE

NextRange ==
    \/ del_range
    \/ compact_range
    \/ host_return

SpecRange == Init /\ [][NextRange]_vars

NextBulk ==
    \/ get_sst_writer
    \/ put
    \/ finish
    \/ ingest_sst
    \/ host_return

SpecBulk == Init /\ [][NextBulk]_vars

\* Range maintenance, then one bulk-load job.
NextCalls ==
    \/ ~writer.held /\ del_range
    \/ ~writer.held /\ compact_range
    \/ NextBulk

SpecCalls == Init /\ [][NextCalls]_vars

\* Snapshot and Transaction Handles against the life of the Database Handle.
NextLife ==
    \/ make_snapshot
    \/ drop_snapshot
    \/ close_db
    \/ transact
    \/ tx_commit
    \/ host_return

SpecLife == Init /\ [][NextLife]_vars

\* Transactions on an open database.
NextTx ==
    \/ transact
    \/ tx_put
    \/ tx_commit
    \/ host_return

\* A newly created database with the engine's own key order.
InitTx == Init /\ ~bridge.use_cmp /\ store = [cf \in CFIds |-> EmptyCF]

SpecTx == InitTx /\ [][NextTx]_vars

\* One transaction and range deletes on a new database.
NextTxRange ==
    \/ (\A t \in TxIds : txs[t].state = "none") /\ transact
    \/ tx_put
    \/ tx_commit
    \/ del_range
    \/ host_return

SpecTxRange == InitTx /\ [][NextTxRange]_vars

\* One transaction on a new database opened with use_cmp and the callback.
InitCmp == Init /\ bridge.use_cmp /\ store = [cf \in CFIds |-> EmptyCF]

NextTxCmp ==
    \/ (\A t \in TxIds : txs[t].state = "none") /\ transact
    \/ tx_put
    \/ tx_commit
    \/ host_return

SpecTxCmp == InitCmp /\ [][NextTxCmp]_vars

\* Before open: the data on disk, and no handle.
InitClosed ==
    /\ bridge = NoBridge
    /\ store \in [CFIds -> {EmptyCF, FullCF}]
    /\ files = [p \in Paths |-> NoFile]
    /\ writer = NoWriter
    /\ snaps = <<>>
    /\ txs = [t \in TxIds |-> NoTx]
    /\ call = Idle
    /\ status = FreshStatus
    /\ pre = [store |-> store, files |-> files, writer |-> writer]
    /\ crashed = FALSE

\* Open, then range maintenance on what was opened.
NextOpen ==
    \/ open_db
    \/ del_range
    \/ compact_range
    \/ host_return

SpecOpen == InitClosed /\ [][NextOpen]_vars

\* Every operation of the Database Handle, with one transaction.
NextHandle ==
    \/ (\A t \in TxIds : txs[t].state = "none") /\ transact
    \/ get_sst_writer
    \/ ingest_sst
    \/ del_range
    \/ compact_range
    \/ get_db_path
    \/ get_base_db
    \/ host_return

SpecHandle == Init /\ [][NextHandle]_vars

\* The engine's index-key requests to the comparator adapter.
NextIndex ==
    \/ find_shortest_separator
    \/ find_short_successor
    \/ host_return

SpecIndex == Init /\ [][NextIndex]_vars

Next ==
    \/ NextRange
    \/ NextIndex
    \/ get_db_path
    \/ get_base_db
    \/ open_db
    \/ NextBulk
    \/ NextLife
    \/ NextTx

Spec == Init /\ [][Next]_vars

\* ------------------------------------------------------------- properties
\* The call in progress was made with a populated column-family index.
ValidIdx == call.idx < Len(bridge.cf_handles)

\* The column family that index names.
CallCf == bridge.cf_handles[call.idx + 1]

\* k is in [start, end) of the call, in the order of the installed comparator.
InCallRange(k) ==
    IF bridge.use_cmp
    THEN call.a >= k /\ k > call.b
    ELSE call.a <= k /\ k < call.b

\* C1: after del_range(start, end, idx) returns Ok for a column family index
\* idx, every key of [start, end) in that family reads not found, and every
\* other key of that family and every key of the other families reads the
\* value it had before the call.
C1_DelRangeDeletesExactlyTheRange ==
    (call.op = "del_range" /\ ~crashed /\ ValidIdx /\ IsOk(status)) =>
        \A cf \in CFIds, k \in Keys :
            IF cf = CallCf /\ InCallRange(k)
            THEN Get(store, cf, k) = NoVal
            ELSE Get(store, cf, k) = Get(pre.store, cf, k)

\* A del_range that returned Ok removed a key and left a key of the same
\* family, outside the range, and a key of another family in place.
C1_Witness ==
    /\ call.op = "del_range" /\ ~crashed /\ ValidIdx /\ IsOk(status)
    /\ \E k \in Keys : InCallRange(k) /\ Get(pre.store, CallCf, k) # NoVal
    /\ \E k \in Keys : ~InCallRange(k) /\ Get(store, CallCf, k) # NoVal
    /\ \E cf \in CFIds \ {CallCf}, k \in Keys : InCallRange(k) /\ Get(store, cf, k) # NoVal

IndexedOps == {"get_sst_writer", "ingest_sst", "del_range", "compact_range"}

\* C2: a call of get_sst_writer, ingest_sst, del_range or compact_range with
\* an index that is not below the number of populated handles is refused
\* before the index is used: the status is InvalidArgument, no engine call
\* is made and nothing changes.
C2_OutOfRangeIndexRefused ==
    (call.op \in IndexedOps /\ ~ValidIdx) =>
        /\ ~crashed
        /\ status = write_status("InvalidArgument", FreshStatus)
        /\ call.ecalls = <<>>
        /\ store = pre.store /\ files = pre.files /\ writer = pre.writer

WriterStates == {"Opened", "Finished", "Failed"}

WriterMoves ==
    {<<"Opened", "Opened">>, <<"Opened", "Finished">>, <<"Opened", "Failed">>,
     <<"Finished", "Finished">>, <<"Failed", "Failed">>}

\* C5: a Bulk Writer moves only Created -> Opened -> Finished or Failed, and
\* a put on a writer that is Finished or Failed (a failed open included)
\* returns a failure status and adds no pair to the file.
C5_EndedWriterRefusesPut ==
    /\ (call.op = "get_sst_writer" /\ ~crashed) => writer.state \in {"Opened", "Failed"}
    /\ (call.op \in {"put", "finish"}) => <<pre.writer.state, writer.state>> \in WriterMoves
    /\ (call.op = "put" /\ pre.writer.state \in {"Finished", "Failed"}) =>
          /\ ~IsOk(status)
          /\ files = pre.files

\* C6: a second finish() on a writer whose first finish() succeeded returns
\* a failure status, does not crash and leaves the sealed file as it was.
C6_SecondFinishFails ==
    (call.op = "finish" /\ pre.writer.state = "Finished") =>
        /\ ~crashed
        /\ status.writes = 1 /\ ~IsOk(status)
        /\ files = pre.files
        /\ writer.state = "Finished"

\* finish() was called on a Finished writer whose sealed file holds pairs.
C6_Witness ==
    /\ call.op = "finish" /\ pre.writer.state = "Finished"
    /\ pre.files[writer.path].sealed
    /\ Len(pre.files[writer.path].pairs) >= 2

\* C7: pairs put in ascending comparator order, finish(), then ingest_sst
\* into a column family that was empty, all returning Ok: reading the family
\* back yields exactly the pairs that were put, in comparator order.
C7_BulkRoundTrip ==
    (/\ call.op = "ingest_sst" /\ ~crashed /\ ValidIdx /\ IsOk(status)
     /\ writer.state = "Finished" /\ writer.path = call.path
     /\ pre.store[CallCf] = EmptyCF) =>
        Scan(store, CallCf) = writer.accepted

\* A file of at least two pairs with different values was ingested into an
\* empty column family.
C7_Witness ==
    /\ call.op = "ingest_sst" /\ ~crashed /\ ValidIdx /\ IsOk(status)
    /\ writer.state = "Finished" /\ writer.path = call.path
    /\ pre.store[CallCf] = EmptyCF
    /\ Len(writer.accepted) >= 2
    /\ writer.accepted[1][2] # writer.accepted[2][2]

\* The file's pairs are what the column family holds for their keys.
FileIsInFamily(f, cf) == \A i \in 1..Len(f.pairs) : Get(store, cf, f.pairs[i][1]) = f.pairs[i][2]

\* C8 (as stated): after ingest_sst(path, idx) returns Ok the file is in the
\* engine's storage for idx, the ingestion used default options and the
\* source file at path is consumed.
C8_IngestConsumesFile ==
    (call.op = "ingest_sst" /\ ~crashed /\ ValidIdx /\ IsOk(status)) =>
        /\ FileIsInFamily(pre.files[call.path], CallCf)
        /\ call.ifo = DefaultIngestOptions
        /\ ~files[call.path].exists

\* C8 (amended): after ingest_sst(path, idx) returns Ok the file's pairs are
\* in the engine's storage for idx, the ingestion used default options, and
\* under them the file is copied: it is still at path, unchanged.
C8_IngestCopiesFile ==
    (call.op = "ingest_sst" /\ ~crashed /\ ValidIdx /\ IsOk(status)) =>
        /\ FileIsInFamily(pre.files[call.path], CallCf)
        /\ call.ifo = DefaultIngestOptions
        /\ files[call.path].exists
        /\ files = pre.files

\* A sealed file with pairs was ingested with an Ok status.
C8_Witness ==
    /\ call.op = "ingest_sst" /\ ~crashed /\ ValidIdx /\ IsOk(status)
    /\ pre.files[call.path].sealed
    /\ Len(pre.files[call.path].pairs) >= 1

StatusOps == {"put", "finish", "get_sst_writer", "ingest_sst", "del_range", "compact_range"}

\* C9: every invocation of put, finish, get_sst_writer, ingest_sst, del_range
\* and compact_range that returns has written the caller's status exactly
\* once, and the status is a failure when an engine call it made failed.
C9_StatusWrittenOnce ==
    (call.op \in StatusOps /\ ~crashed) =>
        /\ status.writes = 1
        /\ call.efail => ~IsOk(status)
        /\ ~call.efail => IsOk(status)

\* del_range returned early after DeleteRange failed, with the status written.
C9_Witness ==
    /\ call.op = "del_range" /\ ~crashed
    /\ call.ecalls = <<"DeleteRange">> /\ call.efail
    /\ status.writes = 1 /\ ~IsOk(status)

\* C3: on an open database every snapshot is released through the database
\* exactly once: not while its handle is held, never twice, and once when
\* its handle has been destroyed.
C3_SnapshotReleasedOnce ==
    \A i \in 1..Len(snaps) :
        /\ snaps[i].released <= 1
        /\ snaps[i].held => snaps[i].released = 0
        /\ (~snaps[i].held /\ ~snaps[i].used_dead) => snaps[i].released = 1

\* Two snapshots were taken; the later one was destroyed and released while
\* the database was open and the earlier one is still held.
C3_Witness ==
    /\ bridge.alive /\ Len(snaps) = MaxSnaps
    /\ snaps[1].held /\ snaps[1].released = 0
    /\ ~snaps[MaxSnaps].held /\ snaps[MaxSnaps].released = 1

LifeOps == {"drop_snapshot", "tx_commit"}

\* C4: no handle ever calls into a database that was destroyed: a Snapshot
\* Handle destroyed, or a Transaction Handle used, after the database was
\* closed fails fast with an error and the process goes on.
C4_NoCallIntoClosedDatabase ==
    /\ \A i \in 1..Len(snaps) : ~snaps[i].used_dead
    /\ \A t \in TxIds : ~txs[t].used_dead
    /\ (call.op \in LifeOps /\ ~bridge.alive) =>
           (~crashed /\ status.writes = 1 /\ ~IsOk(status))

TxWrote(t) == {<<i, k>> \in CFIds \X Keys : txs[t].writes[i][k] # NoVal}

BothCommitted ==
    /\ \A t \in TxIds : txs[t].state = "committed"
    /\ \E t \in TxIds : txs[t].concurrent
    /\ TxWrote("A") \cap TxWrote("B") = {}

\* C10: two transactions from transact() that were open together and wrote
\* keys the other did not: both commits return Ok, and after the second
\* commit a read of every key either of them wrote returns what it wrote.
C10_DisjointCommitsBothVisible ==
    /\ (call.op = "tx_commit" /\ \E t \in TxIds : txs[t].concurrent) => IsOk(status)
    /\ (call.op = "tx_commit" /\ BothCommitted) =>
           \A t \in TxIds : \A w \in TxWrote(t) :
               Get(store, bridge.cf_handles[w[1] + 1], w[2]) = TxVal[t]

\* Both transactions wrote in both column families, and the second commit
\* has returned.
C10_Witness ==
    /\ call.op = "tx_commit" /\ IsOk(status)
    /\ BothCommitted
    /\ \A t \in TxIds : \A i \in CFIds : \E k \in Keys : <<i, k>> \in TxWrote(t)

ScanKeys(st, cf) == [i \in 1..Len(Scan(st, cf)) |-> Scan(st, cf)[i][1]]

\* C12: on a database opened with use_cmp and a callback, iterating the
\* primary column family after a committed transaction returns every key of
\* the family once, in ascending order of the callback; with the reverse
\* callback and all keys written, the scan runs from the largest key down.
C12_ScanInCallbackOrder ==
    (call.op = "tx_commit" /\ bridge.alive /\ IsOk(status) /\ bridge.use_cmp) =>
        LET pri == bridge.cf_handles[1]
            ks == ScanKeys(store, pri)
        IN  /\ {ks[i] : i \in 1..Len(ks)} = Present(store, pri)
            /\ \A i, j \in 1..Len(ks) : i < j => ext_cmp(ks[i], ks[j]) < 0
            /\ Present(store, pri) = Keys =>
                   ks = [i \in 1..(MaxKey + 1) |-> MaxKey + 1 - i]

\* A transaction wrote every key to the primary column family and has
\* committed; the scan starts at the largest key.
C12_Witness ==
    /\ call.op = "tx_commit" /\ IsOk(status) /\ bridge.use_cmp
    /\ \A k \in Keys : <<0, k>> \in TxWrote(call.path)
    /\ ScanKeys(store, bridge.cf_handles[1])[1] = MaxKey

\* C13: when open fails for want of a resource (path unavailable, lock
\* held, comparator name mismatch), the status written is a failure and the
\* caller receives no Database Handle, in particular not one that is only
\* partly built.
C13_FailedOpenReturnsNoHandle ==
    (call.op = "open_db" /\ call.path \in OpenFailures) =>
        /\ status.writes = 1
        /\ ~IsOk(status)
        /\ bridge = NoBridge

\* An open that failed because the lock was held has returned.
C13_Witness ==
    /\ call.op = "open_db" /\ call.path = "lock held"
    /\ ~IsOk(status) /\ ~bridge.alive

\* The place of step e in the destruction in progress (0: not a step of it).
StepOf(e) ==
    IF \E i \in 1..Len(call.ecalls) : call.ecalls[i] = e
    THEN CHOOSE i \in 1..Len(call.ecalls) : call.ecalls[i] = e
    ELSE 0

\* C14: when a Database Handle is destroyed the column-family handles are
\* released first, then the database is closed, and both comparators are
\* destroyed after that: no comparator goes while the database is open.
C14_ComparatorsOutliveDatabase ==
    call.op = "close_db" =>
        /\ StepOf("release cf_handles") = 1
        /\ StepOf("db") > StepOf("release cf_handles")
        /\ StepOf("pri_comparator") > StepOf("db")
        /\ StepOf("snd_comparator") > StepOf("db")

\* The handle of a database opened with the comparison callback, with a
\* Snapshot Handle taken, has been destroyed.
C14_Witness ==
    /\ call.op = "close_db" /\ ~bridge.alive /\ bridge.use_cmp
    /\ Len(snaps) > 0
    /\ Len(call.ecalls) = Len(Members) + 1

LockStatuses == {"TimedOut", "Busy"}

\* C15: del_range writes its batch with concurrency control skipped: it
\* never returns a busy or lock-conflict status, and with an open
\* transaction holding locks inside [start, end) it still returns, with Ok
\* unless the batch or the write failed for another reason.
C15_DelRangeIgnoresLocks ==
    (call.op = "del_range" /\ ~crashed) =>
        /\ status.writes = 1
        /\ status.code \notin LockStatuses
        /\ (~call.efail /\ \E t \in TxIds : txs[t].state = "open") => IsOk(status)

\* del_range returned Ok over a key that an open transaction has locked.
C15_Witness ==
    /\ call.op = "del_range" /\ ~crashed /\ IsOk(status)
    /\ \E t \in TxIds : txs[t].state = "open" /\ txs[t].ranged
    /\ \E k \in Keys : InCallRange(k)

HandleOps ==
    {"transact", "get_sst_writer", "ingest_sst", "del_range", "compact_range",
     "get_db_path", "get_base_db"}

\* C16: no operation of the Database Handle changes the column-family
\* handle table, the stored path or the installed comparators: across every
\* call a cf index names the same column family as before it.
C16_HandleFieldsFixed ==
    [][call'.op \in HandleOps =>
           /\ bridge'.cf_handles = bridge.cf_handles
           /\ bridge'.db_path = bridge.db_path
           /\ bridge'.use_cmp = bridge.use_cmp]_vars

\* After a transaction was handed out and a Bulk Writer created, the path
\* was read and the handle still has its table and path.
C16_Witness ==
    /\ call.op = "get_db_path" /\ call.path = "db"
    /\ writer.held
    /\ \E t \in TxIds : txs[t].state = "open"
    /\ bridge.cf_handles = <<0, 1>> /\ bridge.db_path = "db"

\* C17: compact_range changes no read: after it returns, with Ok or with a
\* failure, every key of every column family reads what it read before.
C17_CompactRangeChangesNoRead ==
    (call.op = "compact_range" /\ ~crashed) =>
        \A cf \in CFIds, k \in Keys : Get(store, cf, k) = Get(pre.store, cf, k)

\* compact_range over a range that holds keys returned a failure.
C17_Witness ==
    /\ call.op = "compact_range" /\ ~crashed /\ ValidIdx /\ ~IsOk(status)
    /\ \E k \in Keys : InCallRange(k) /\ Get(store, CallCf, k) # NoVal

IndexOps == {"FindShortestSeparator", "FindShortSuccessor"}

\* C18: FindShortestSeparator and FindShortSuccessor of the comparator
\* adapter leave the key string they are given as it was, for every input:
\* no key is shortened.
C18_IndexKeysUnchanged ==
    call.op \in IndexOps => (call.path = call.a /\ Len(call.path) = Len(call.a))

\* FindShortSuccessor was given a key of full length that the bytewise
\* comparator would have cut short, and has left it whole.
C18_Witness ==
    /\ call.op = "FindShortSuccessor"
    /\ Len(call.a) = MaxLen /\ call.a[1] = 0 /\ call.path = call.a
    /\ FindShortSuccessorBytewise(call.a) # call.a

\* C19: in del_range, when adding the DeleteRange to the batch fails, that
\* failure is the status, no write is issued and the contents are unchanged;
\* a write is issued only when no failure was reported before it.
C19_FailedBatchIsNotWritten ==
    (call.op = "del_range" /\ ~crashed) =>
        /\ call.ecalls[1] = "DeleteRange"
        /\ Len(call.ecalls) = 1 =>
               /\ status.writes = 1
               /\ status.code \in BatchStatuses \ {"Ok"}
               /\ store = pre.store
        /\ Len(call.ecalls) > 1 =>
               /\ call.ecalls = <<"DeleteRange", "Write">>
               /\ status.writes = 1
               /\ status.code \notin BatchStatuses \ {"Ok"}

\* DeleteRange failed for a range that holds a key: del_range returned the
\* failure and the key is still there.
C19_Witness ==
    /\ call.op = "del_range" /\ ~crashed /\ ValidIdx
    /\ call.ecalls = <<"DeleteRange">>
    /\ status.code = "NotSupported"
    /\ \E k \in Keys : InCallRange(k) /\ Get(store, CallCf, k) # NoVal

====
